---- MODULE Spec2Model ----
(***************************************************************************)
(* A model of params.h: the option registry (params_map), the nine addp    *)
(* registration overloads and the overload a host's call selects, Param's  *)
(* constructor and Param::Set, argparse step by step (joining argv, the    *)
(* '=' replacement loop, the word-boundary scan, the option/argument read  *)
(* loop and the final required-option validation), and argdetails.         *)
(*                                                                         *)
(* Strings are sequences of one-character strings; positions are the       *)
(* 0-based positions of the C++ code, and -1 is string::npos stored in an  *)
(* int.                                                                    *)
(***************************************************************************)
EXTENDS Integers, Sequences, FiniteSets, TLC

VARIABLES
    host,              \* which host program (main) is running
    pc,                \* "main" | "scan" | "read" | "returned" | "exited" | "terminated"
                       \*   | "printed"
    params_map,        \* priv::params_map : long phrase -> Param
    dest,              \* the host's variables the destinations point to
    diag,              \* what was written to stderr before exit(1)
    argv,              \* argv[1..] as handed to argparse
    args,              \* argparse: string args
    pos,               \* argparse: vector<int> pos
    posspace,          \* argparse: int posspace
    location,          \* argparse: int location
    i,                 \* argparse: iterator into pos (as an index, 0-based)
    readingAnOption,   \* argparse: bool readingAnOption
    parameter,         \* argparse: Param* parameter (its key; <<>> is nullptr)
    parameter_counter, \* argparse: int parameter_counter
    matched,           \* history: the keys argparse has looked up and found so far
    lastCall,          \* history: long phrase -> the last addp call made under it
    details            \* what argdetails returned to the host

vars == <<host, pc, params_map, dest, diag, argv, args, pos, posspace, location,
          i, readingAnOption, parameter, parameter_counter, matched, lastCall,
          details>>

(***************************************************************************)
(* Bounds of the model.                                                    *)
(***************************************************************************)
MaxArgs == 4    \* longest argv (without the program name) that is explored
MaxSpin == 1    \* extra scan iterations explored once pos outgrows args

(***************************************************************************)
(* std::string operations used by argparse.                                *)
(***************************************************************************)
At(s, k) == s[k + 1]

Min(S) == CHOOSE x \in S : \A y \in S : x <= y

\* s.find(ch, from), converted to int
Find(s, ch, from) ==
    LET S == {k \in from..(Len(s) - 1) : At(s, k) = ch}
    IN  IF S = {} THEN -1 ELSE Min(S)

\* s.find_first_not_of(ch, from), converted to int
FindFirstNotOf(s, ch, from) ==
    LET S == {k \in from..(Len(s) - 1) : At(s, k) # ch}
    IN  IF S = {} THEN -1 ELSE Min(S)

\* s.substr(beg, n): n is converted to size_t, so a negative n runs to the end
Substr(s, beg, n) ==
    LET stop == IF n < 0 \/ beg + n > Len(s) THEN Len(s) ELSE beg + n
    IN  [k \in 1..(stop - beg) |-> s[beg + k]]

\* tolower on the characters the model uses
ToLowerChar(ch) ==
    CASE ch = "T" -> "t"
      [] ch = "F" -> "f"
      [] ch = "A" -> "a"
      [] OTHER -> ch

ToLower(s) == [k \in 1..Len(s) |-> ToLowerChar(s[k])]

\* character codes, for the ordering of map<string, Param*>
Code(ch) ==
    CASE ch = " " -> 32 [] ch = "\"" -> 34 [] ch = "-" -> 45
      [] ch = "1" -> 49 [] ch = "2" -> 50 [] ch = "=" -> 61
      [] ch = "A" -> 65 [] ch = "F" -> 70 [] ch = "T" -> 84
      [] ch = "\\" -> 92
      [] ch = "a" -> 97 [] ch = "b" -> 98 [] ch = "c" -> 99
      [] ch = "e" -> 101 [] ch = "f" -> 102 [] ch = "h" -> 104
      [] ch = "i" -> 105 [] ch = "l" -> 108 [] ch = "n" -> 110
      [] ch = "p" -> 112 [] ch = "q" -> 113 [] ch = "r" -> 114
      [] ch = "s" -> 115 [] ch = "t" -> 116 [] ch = "u" -> 117
      [] ch = "x" -> 120
      [] OTHER -> 127

\* std::less<string>: lexicographic order by character code
RECURSIVE StrLess(_, _)
StrLess(a, b) ==
    IF b = <<>> THEN FALSE
    ELSE IF a = <<>> THEN TRUE
    ELSE IF Code(Head(a)) # Code(Head(b)) THEN Code(Head(a)) < Code(Head(b))
    ELSE StrLess(Tail(a), Tail(b))

(***************************************************************************)
(* Numeric conversion: std::stoi and friends read a sign and the longest   *)
(* run of digits, and throw when there is no digit. (No word of the model  *)
(* has a digit after a sign, a decimal point or leading white space.)      *)
(***************************************************************************)
Digits == {"1", "2"}

DigitVal(ch) == IF ch = "1" THEN 1 ELSE 2

RECURSIVE DigitRun(_)
DigitRun(s) ==
    IF s = <<>> \/ Head(s) \notin Digits THEN <<>>
    ELSE <<Head(s)>> \o DigitRun(Tail(s))

RECURSIVE Horner(_, _)
Horner(ds, acc) ==
    IF ds = <<>> THEN acc ELSE Horner(Tail(ds), 10 * acc + DigitVal(Head(ds)))

\* [throws |-> TRUE] or [throws |-> FALSE, val |-> n]
Sto(value) ==
    LET neg  == value # <<>> /\ Head(value) = "-"
        body == IF neg THEN Tail(value) ELSE value
        run  == DigitRun(body)
    IN  IF run = <<>> THEN [throws |-> TRUE, val |-> 0]
        ELSE [throws |-> FALSE,
              val |-> IF neg THEN 0 - Horner(run, 0) ELSE Horner(run, 0)]

(***************************************************************************)
(* enum class TYPE, and the host variables a destination can point to.     *)
(* A cell is [init, items]: a scalar holds one item once written, a vector *)
(* holds the pushed items; init = FALSE is a scalar the host declared      *)
(* without an initializer.                                                 *)
(***************************************************************************)
TYPE == {"BOOL", "INT", "UINT", "FLOAT", "LONG", "DOUBLE", "CHAR", "STRING"}

NumericTypes == {"INT", "UINT", "FLOAT", "LONG", "DOUBLE"}

HELP == <<"-", "-", "h", "e", "l", "p">>
TrueWord == <<"t", "r", "u", "e">>
FalseWord == <<"f", "a", "l", "s", "e">>

NoDiag == [kind |-> "none", text |-> <<>>]

Scalar(v) == [init |-> TRUE, items |-> <<v>>]

PushBack(cell, v) == [init |-> TRUE, items |-> cell.items \o <<v>>]

(***************************************************************************)
(* Param::Set. The result is the new destinations and how the call ended:  *)
(* "ok", "exit" (diagnostic, then exit(1)) or "terminate" (an exception    *)
(* nothing catches).                                                       *)
(***************************************************************************)
SetNumeric(p, value, d) ==
    LET r == Sto(value)
    IN  IF p.xargs = 1
        THEN IF r.throws
             THEN [status |-> "terminate", dest |-> d, diag |-> NoDiag]
             ELSE [status |-> "ok", diag |-> NoDiag,
                   dest |-> [d EXCEPT ![p.destination] = Scalar(r.val)]]
        ELSE IF r.throws
             THEN [status |-> "exit", dest |-> d,
                   diag |-> [kind |-> "conversion", type |-> p.type, text |-> value]]
             ELSE [status |-> "ok", diag |-> NoDiag,
                   dest |-> [d EXCEPT ![p.destination] = PushBack(@, r.val)]]

SetBool(p, value, d) ==
    LET lowercase == ToLower(value)
    IN  IF lowercase # FalseWord /\ lowercase # TrueWord
        THEN [status |-> "exit", dest |-> d,
              diag |-> [kind |-> "baddefault", text |-> value]]
        ELSE [status |-> "ok", diag |-> NoDiag,
              dest |-> [d EXCEPT ![p.destination] = Scalar(lowercase = TrueWord)]]

SetPlain(p, v, d) ==
    [status |-> "ok", diag |-> NoDiag,
     dest |-> [d EXCEPT ![p.destination] =
                  IF p.xargs = 1 THEN Scalar(v) ELSE PushBack(@, v)]]

Set(p, value, d) ==
    IF value = <<>> THEN [status |-> "ok", dest |-> d, diag |-> NoDiag]
    ELSE CASE p.type = "BOOL" -> SetBool(p, value, d)
           [] p.type \in NumericTypes -> SetNumeric(p, value, d)
           [] p.type = "CHAR" -> SetPlain(p, Head(value), d)
           [] p.type = "STRING" -> SetPlain(p, value, d)

(***************************************************************************)
(* Param::Param. The member `set` is written for BOOL only; for every      *)
(* other type it is left uninitialized ("indeterminate") until argparse    *)
(* writes it.                                                              *)
(***************************************************************************)
\* Param::Param that leaves `required` of a BOOL as it was passed
ParamInit_KeepsRequired(c) ==
    [type |-> c.type, destination |-> c.destination, longPhrase |-> c.longPhrase,
     helpPhrase |-> c.helpPhrase, xargs |-> c.xargs,
     required |-> c.required,
     set |-> IF c.type = "BOOL" THEN "true" ELSE "indeterminate",
     defaultValue |-> c.defaultValue]

ParamInit(c) ==
    [type |-> c.type, destination |-> c.destination, longPhrase |-> c.longPhrase,
     helpPhrase |-> c.helpPhrase, xargs |-> c.xargs,
     required |-> IF c.type = "BOOL" THEN FALSE ELSE c.required,
     set |-> IF c.type = "BOOL" THEN "true" ELSE "indeterminate",
     defaultValue |-> c.defaultValue]

Param(c, d) ==
    LET p == ParamInit(c)
        r == IF c.type = "BOOL"
             THEN IF c.defaultValue # <<>> THEN Set(p, c.defaultValue, d)
                  ELSE Set(p, FalseWord, d)
             ELSE IF c.xargs = 1 THEN Set(p, c.defaultValue, d)
                  ELSE [status |-> "ok", dest |-> d, diag |-> NoDiag]
    IN  [status |-> r.status, dest |-> r.dest, diag |-> r.diag, param |-> p]

(***************************************************************************)
(* The nine addp overloads: what each passes to Param's constructor.       *)
(***************************************************************************)
Ctor(t, d, lp, hp, x, req, dv) ==
    [type |-> t, destination |-> d, longPhrase |-> lp, helpPhrase |-> hp,
     xargs |-> x, required |-> req, defaultValue |-> dv]

AddpHelp(t, d) == Ctor(t, d, HELP, "Prints this help message.", 1, FALSE, <<>>)
AddpPlain(t, d, lp, hp) == Ctor(t, d, lp, hp, 1, TRUE, <<>>)
AddpXargs(t, d, x, lp, hp) == Ctor(t, d, lp, hp, x, TRUE, <<>>)
AddpDefault(t, d, dv, lp, hp) == Ctor(t, d, lp, hp, 1, FALSE, dv)
AddpXargsDefault(t, d, x, dv, lp, hp) == Ctor(t, d, lp, hp, x, FALSE, dv)
AddpRequired(t, d, req, lp, hp) == Ctor(t, d, lp, hp, 1, req, <<>>)
AddpXargsRequired(t, d, x, req, lp, hp) == Ctor(t, d, lp, hp, x, req, <<>>)
AddpDefaultRequired(t, d, dv, req, lp, hp) == Ctor(t, d, lp, hp, 1, req, dv)
AddpXargsDefaultRequired(t, d, x, dv, req, lp, hp) == Ctor(t, d, lp, hp, x, req, dv)

\* params_map.insert({longPhrase, addedparam}): an entry already there stays
MapInsert_KeepsFirst(m, p) ==
    [k \in DOMAIN m \cup {p.longPhrase} |-> IF k \in DOMAIN m THEN m[k] ELSE p]

\* params_map[longPhrase] = addedparam
MapInsert(m, p) ==
    [k \in DOMAIN m \cup {p.longPhrase} |-> IF k = p.longPhrase THEN p ELSE m[k]]

(***************************************************************************)
(* An addp call as the host writes it: the arguments between the           *)
(* destination and the phrases, each with the type the host gives it, and  *)
(* the overload the compiler selects for it. A string literal is a         *)
(* const char*: where an overload takes bool in that place, the conversion *)
(* of the pointer to bool (always true) is a standard conversion and wins  *)
(* over the conversion to std::string, which is user-defined.              *)
(***************************************************************************)
IntArg(x) == [kind |-> "int", n |-> x, b |-> FALSE, s |-> <<>>]
BoolArg(b) == [kind |-> "bool", n |-> 0, b |-> b, s |-> <<>>]
Literal(s) == [kind |-> "literal", n |-> 0, b |-> FALSE, s |-> s]
StdString(s) == [kind |-> "string", n |-> 0, b |-> FALSE, s |-> s]

Call(t, d, a, lp, hp) ==
    [form |-> "phrased", type |-> t, destination |-> d, a |-> a,
     longPhrase |-> lp, helpPhrase |-> hp]

\* addp(type, &destination): the form for the help flag
CallHelp(t, d) ==
    [form |-> "help", type |-> t, destination |-> d, a |-> <<>>,
     longPhrase |-> HELP, helpPhrase |-> "Prints this help message."]

\* the five-argument calls: one argument before the phrases
Resolve5(t, d, a, lp, hp) ==
    CASE a[1].kind = "int" -> AddpXargs(t, d, a[1].n, lp, hp)
      [] a[1].kind = "bool" -> AddpRequired(t, d, a[1].b, lp, hp)
      [] a[1].kind = "literal" -> AddpRequired(t, d, TRUE, lp, hp)
      [] a[1].kind = "string" -> AddpDefault(t, d, a[1].s, lp, hp)

\* the six-argument calls: two arguments before the phrases
Resolve6(t, d, a, lp, hp) ==
    CASE a[1].kind = "int" /\ a[2].kind = "string" ->
           AddpXargsDefault(t, d, a[1].n, a[2].s, lp, hp)
      [] a[1].kind = "int" /\ a[2].kind = "literal" ->
           AddpXargsRequired(t, d, a[1].n, TRUE, lp, hp)
      [] a[1].kind = "int" /\ a[2].kind = "bool" ->
           AddpXargsRequired(t, d, a[1].n, a[2].b, lp, hp)
      [] a[1].kind \in {"literal", "string"} /\ a[2].kind = "bool" ->
           AddpDefaultRequired(t, d, a[1].s, a[2].b, lp, hp)

Resolve(call) ==
    LET t  == call.type
        d  == call.destination
        a  == call.a
        lp == call.longPhrase
        hp == call.helpPhrase
    IN  IF call.form = "help" THEN AddpHelp(t, d)
        ELSE CASE Len(a) = 0 -> AddpPlain(t, d, lp, hp)
               [] Len(a) = 1 -> Resolve5(t, d, a, lp, hp)
               [] Len(a) = 2 -> Resolve6(t, d, a, lp, hp)
               [] Len(a) = 3 ->
                    AddpXargsDefaultRequired(t, d, a[1].n, a[2].s, a[3].b, lp, hp)

\* the record of the last call made under a phrase
MapPut(f, k, v) == [j \in DOMAIN f \cup {k} |-> IF j = k THEN v ELSE f[j]]

(***************************************************************************)
(* argparse, first part: args is every argv word followed by a space, then *)
(* the loop that turns '=' into ' '. The loop starts from the first space  *)
(* of args and only then looks for '=' further right.                      *)
(***************************************************************************)
RECURSIVE JoinArgs(_)
JoinArgs(av) ==
    IF av = <<>> THEN <<>> ELSE Head(av) \o <<" ">> \o JoinArgs(Tail(av))

RECURSIVE EqualsLoop(_, _)
EqualsLoop(a, posequals) ==
    IF posequals = -1 THEN a
    ELSE LET b == IF posequals > 0 /\ At(a, posequals - 1) # "\\"
                  THEN [a EXCEPT ![posequals + 1] = " "]
                  ELSE a
         IN  EqualsLoop(b, Find(b, "=", posequals + 1))

ReplaceEquals(a) == EqualsLoop(a, Find(a, " ", 0))

(***************************************************************************)
(* argparse, the word-boundary scan: the loop condition and one iteration. *)
(***************************************************************************)
ScanCond(a, ps) == ps # -1 /\ ps # Len(a) - 1

ScanIter(a, p, ps) ==
    IF At(a, ps) = "\""
    THEN LET posquote == Find(a, "\"", ps + 1)
         IN  [pos |-> p \o <<ps + 1, posquote>>,
              location |-> posquote,
              posspace |-> FindFirstNotOf(a, " ", posquote + 1)]
    ELSE LET sp == Find(a, " ", ps + 1)
         IN  [pos |-> p \o <<ps, sp>>,
              location |-> sp,
              posspace |-> FindFirstNotOf(a, " ", sp + 1)]

\* the scan is followed as long as pos has not outgrown what args can hold
ScanLimit(a) == Len(a) + 2 * MaxSpin

(***************************************************************************)
(* argparse, the read loop: one iteration, as the new values of the        *)
(* variables it can change.                                                *)
(***************************************************************************)
ReadState(c, dg, m, d, k, rao, par, cnt) ==
    [pc |-> c, diag |-> dg, params_map |-> m, dest |-> d, i |-> k,
     readingAnOption |-> rao, parameter |-> par, parameter_counter |-> cnt]

\* ReadBool without the return on "--help"
ReadBool_NoReturn(m, d, k, key, cnt) ==
    LET r == Set(m[key], TrueWord, d)
    IN  ReadState("read", NoDiag, m, r.dest, k + 2, TRUE, key, cnt)

\* ReadBool without parameter->Set("true")
ReadBool_NoSet(m, d, k, key, cnt) ==
    IF key = HELP
    THEN ReadState("returned", NoDiag, m, d, k + 1, TRUE, key, cnt)
    ELSE ReadState("read", NoDiag, m, d, k + 2, TRUE, key, cnt)

\* a boolean option was matched: Set("true"), and "--help" returns
ReadBool(m, d, k, key, cnt) ==
    LET r == Set(m[key], TrueWord, d)
    IN  IF key = HELP
        THEN ReadState("returned", NoDiag, m, r.dest, k + 1, TRUE, key, cnt)
        ELSE ReadState("read", NoDiag, m, r.dest, k + 2, TRUE, key, cnt)

\* ReadOption looking the word up by its first character only
ReadOption_PrefixMatch(m, d, k, key, cnt) ==
    LET short == IF key = <<>> THEN key ELSE <<Head(key)>>
    IN  IF short \notin DOMAIN m
        THEN ReadState("exited", [kind |-> "unrecognized", text |-> key],
                       m, d, k + 1, TRUE, <<>>, cnt)
        ELSE IF m[short].type # "BOOL"
             THEN ReadState("read", NoDiag, m, d, k + 2, FALSE, short, m[short].xargs)
             ELSE ReadBool(m, d, k, short, cnt)

ReadOption(m, d, k, key, cnt) ==
    IF key \notin DOMAIN m
    THEN ReadState("exited", [kind |-> "unrecognized", text |-> key],
                   m, d, k + 1, TRUE, <<>>, cnt)
    ELSE IF m[key].type # "BOOL"
         THEN ReadState("read", NoDiag, m, d, k + 2, FALSE, key, m[key].xargs)
         ELSE ReadBool(m, d, k, key, cnt)

\* ReadArgument counting the values down on the descriptor's xargs
ReadArgument_CountsOnXargs(m, d, k, key, par, cnt) ==
    LET r == Set(m[par], key, d)
        c == m[par].xargs - 1
    IN  IF r.status = "exit"
        THEN ReadState("exited", r.diag, m, d, k + 1, FALSE, par, cnt)
        ELSE IF r.status = "terminate"
        THEN ReadState("terminated", NoDiag, m, d, k + 1, FALSE, par, cnt)
        ELSE IF c = 0
        THEN ReadState("read", NoDiag, [m EXCEPT ![par].set = "true", ![par].xargs = c],
                       r.dest, k + 2, TRUE, par, c)
        ELSE IF c < 0
        THEN ReadState("read", NoDiag, [m EXCEPT ![par].set = "true", ![par].xargs = c],
                       r.dest, k + 2, FALSE, par, c)
        ELSE ReadState("read", NoDiag, [m EXCEPT ![par].xargs = c], r.dest,
                       k + 2, FALSE, par, c)

ReadArgument(m, d, k, key, par, cnt) ==
    LET r == Set(m[par], key, d)
        c == cnt - 1
    IN  IF r.status = "exit"
        THEN ReadState("exited", r.diag, m, d, k + 1, FALSE, par, cnt)
        ELSE IF r.status = "terminate"
        THEN ReadState("terminated", NoDiag, m, d, k + 1, FALSE, par, cnt)
        ELSE IF c = 0
        THEN ReadState("read", NoDiag, [m EXCEPT ![par].set = "true"], r.dest,
                       k + 2, TRUE, par, c)
        ELSE IF c < 0
        THEN ReadState("read", NoDiag, [m EXCEPT ![par].set = "true"], r.dest,
                       k + 2, FALSE, par, c)
        ELSE ReadState("read", NoDiag, m, r.dest, k + 2, FALSE, par, c)

ReadIter(m, d, a, p, k, rao, par, cnt) ==
    LET beg == p[k + 1]
        key == Substr(a, beg, p[k + 2] - beg)
    IN  IF rao THEN ReadOption(m, d, k, key, cnt)
        ELSE ReadArgument(m, d, k, key, par, cnt)

(***************************************************************************)
(* argparse, the validation loop over params_map in key order. A `set`     *)
(* that was never written reads as either value.                           *)
(***************************************************************************)
SetReads(m) ==
    {g \in [DOMAIN m -> BOOLEAN] :
        \A k \in DOMAIN m : /\ m[k].set = "true" => g[k]
                            /\ m[k].set = "false" => ~g[k]}

LeastKey(S) == CHOOSE k \in S : \A j \in S \ {k} : StrLess(k, j)

ValidateIter(m, g) ==
    LET missing == {k \in DOMAIN m : m[k].required /\ ~g[k]}
    IN  IF missing = {} THEN [pc |-> "returned", diag |-> NoDiag]
        ELSE [pc |-> "exited",
              diag |-> [kind |-> "missing", text |-> m[LeastKey(missing)].longPhrase]]

(***************************************************************************)
(* argdetails: one block per entry of params_map, in the map's key order.  *)
(* A block is the pieces the code appends: the long phrase, the help       *)
(* phrase, the pieces of the arity line if it is written, and the default  *)
(* value if that line is written.                                          *)
(***************************************************************************)
RECURSIVE KeysInOrder(_)
KeysInOrder(S) ==
    IF S = {} THEN <<>>
    ELSE <<LeastKey(S)>> \o KeysInOrder(S \ {LeastKey(S)})

DigitChar(n) ==
    CASE n = 0 -> "0" [] n = 1 -> "1" [] n = 2 -> "2" [] n = 3 -> "3" [] n = 4 -> "4"
      [] n = 5 -> "5" [] n = 6 -> "6" [] n = 7 -> "7" [] n = 8 -> "8" [] n = 9 -> "9"

\* std::to_string(int)
RECURSIVE to_string(_)
to_string(n) ==
    IF n < 0 THEN <<"-">> \o to_string(0 - n)
    ELSE IF n < 10 THEN <<DigitChar(n)>>
    ELSE to_string(n \div 10) \o <<DigitChar(n % 10)>>

TypeName(t) ==
    CASE t = "BOOL" -> "bool."
      [] t = "INT" -> "int."
      [] t = "FLOAT" -> "float."
      [] t = "DOUBLE" -> "double."
      [] t = "UINT" -> "unsigned int."
      [] t = "LONG" -> "long."
      [] t = "CHAR" -> "char."
      [] t = "STRING" -> "string."

Block(p) ==
    [longPhrase |-> p.longPhrase,
     helpPhrase |-> p.helpPhrase,
     arity |-> IF p.xargs > 0 /\ p.type # "BOOL"
               THEN <<[count |-> to_string(p.xargs),
                       plural |-> IF p.xargs # 1 THEN "s" ELSE "",
                       typeName |-> TypeName(p.type)]>>
               ELSE <<>>,
     default |-> IF p.required = FALSE THEN <<p.defaultValue>> ELSE <<>>]

argdetails(m) ==
    LET keys == KeysInOrder(DOMAIN m)
    IN  [n \in 1..Len(keys) |-> Block(m[keys[n]])]

(***************************************************************************)
(* Host programs: the variables each declares, the addp calls it can make, *)
(* and the words its command line is made of.                              *)
(***************************************************************************)
Hosts == {"iter", "seeds", "files", "help", "flags", "quote"}

\* hosts that register a char option, boolean options through the overloads
\* with an arity or a required flag, and one phrase more than once
RegHosts == {"char", "bools", "twice"}

VectorCells == {"seeds", "names", "files", "letters"}
StringCells == {"name_of_run"}
Cells == {"iterations", "flag", "verbose", "showhelp", "initial"}
            \cup VectorCells \cup StringCells

\* int x; bool b; are indeterminate, string s; is empty, vector<T> v; is empty
DestInit ==
    [c \in Cells |->
        IF c \in VectorCells THEN [init |-> TRUE, items |-> <<>>]
        ELSE IF c \in StringCells THEN [init |-> TRUE, items |-> << <<>> >>]
        ELSE [init |-> FALSE, items |-> <<>>]]

Wi == <<"i">>
Wb == <<"b">>
Wt == <<"t">>
Wq == <<"q">>
Ws == <<"s">>
Wf == <<"f">>
Wn == <<"n">>
W1 == <<"1">>
W2 == <<"2">>
Wib == <<"i", "b">>
WiEq1 == <<"i", "=", "1">>
WEmptyQuoted == <<"\"", "\"">>
WOpenA == <<"\"", "a">>
WCloseC == <<"c", "\"">>
WOpenAEsc == <<"\"", "a", "\\", "\"">>
Wc == <<"c">>
Wl == <<"l">>
Wa == <<"a">>
Wx == <<"x">>
WFalse == <<"F", "a", "l", "s", "e">>

Menu(h) ==
    CASE h = "iter" ->
           {Call("INT", "iterations", <<>>, Wi, "iterations"),
            Call("BOOL", "flag", <<>>, Wb, "flag")}
      [] h = "seeds" ->
           {Call("INT", "seeds", <<IntArg(2)>>, Wq, "seeds"),
            Call("STRING", "names", <<IntArg(2), BoolArg(FALSE)>>, Ws, "names")}
      [] h = "files" ->
           {Call("STRING", "files", <<IntArg(-1)>>, Wf, "files"),
            Call("BOOL", "flag", <<>>, Wb, "flag")}
      [] h = "help" ->
           {CallHelp("BOOL", "showhelp"),
            Call("INT", "iterations", <<>>, Wi, "iterations"),
            Call("STRING", "name_of_run", <<Literal(Wa)>>, Wn, "name")}
      [] h = "flags" ->
           {Call("BOOL", "flag", <<>>, Wb, "flag"),
            Call("BOOL", "verbose", <<StdString(<<"T", "r", "u", "e">>)>>, Wt, "verbose"),
            Call("INT", "iterations", <<StdString(<<"2", "1">>)>>, Wi, "iterations")}
      [] h = "quote" ->
           {Call("STRING", "name_of_run", <<>>, Wn, "name"),
            Call("BOOL", "flag", <<>>, Wb, "flag")}
      [] h = "char" ->
           {Call("CHAR", "initial", <<>>, Wc, "initial"),
            Call("CHAR", "letters", <<IntArg(2), BoolArg(FALSE)>>, Wl, "letters")}
      [] h = "bools" ->
           {Call("BOOL", "flag", <<IntArg(2), BoolArg(TRUE)>>, Wb, "flag"),
            Call("BOOL", "verbose", <<Literal(WFalse), BoolArg(TRUE)>>, Wt, "verbose"),
            Call("BOOL", "showhelp", <<StdString(W1)>>, Wa, "showhelp"),
            Call("BOOL", "showhelp", <<Literal(W1)>>, Wa, "showhelp")}
      [] h = "twice" ->
           {Call("INT", "iterations", <<StdString(<<"2", "1">>), BoolArg(TRUE)>>,
                 Wx, "first"),
            Call("STRING", "names", <<IntArg(2), BoolArg(FALSE)>>, Wx, "second"),
            Call("BOOL", "flag", <<IntArg(2), StdString(TrueWord)>>, Wb, "flag")}

Words(h) ==
    CASE h = "iter" -> {Wi, W1, WiEq1, Wb, Wib}
      [] h = "seeds" -> {Wq, Ws, W1, W2, WEmptyQuoted}
      [] h = "files" -> {Wf, Wb, W1, WEmptyQuoted}
      [] h = "help" -> {HELP, Wi, W1, Wn}
      [] h = "flags" -> {Wb, Wt, Wi, W1}
      [] h = "quote" -> {Wn, WOpenA, WOpenAEsc, WCloseC, Wb}
      [] h = "char" -> {Wc, Wl, Wa, WEmptyQuoted}
      [] h = "bools" -> {Wb, Wt, Wa}
      [] h = "twice" -> {Wx, Wb, W1}

Argvs(h) == UNION {[1..n -> Words(h)] : n \in 0..MaxArgs}

(***************************************************************************)
(* The state machine.                                                      *)
(***************************************************************************)
Start ==
    /\ pc = "main"
    /\ params_map = <<>>
    /\ dest = DestInit
    /\ diag = NoDiag
    /\ argv = <<>>
    /\ args = <<>>
    /\ pos = <<>>
    /\ posspace = 0
    /\ location = 0
    /\ i = 0
    /\ readingAnOption = TRUE
    /\ parameter = <<>>
    /\ parameter_counter = 1
    /\ matched = {}
    /\ lastCall = <<>>
    /\ details = <<>>

Init == host \in Hosts /\ Start

InitReg == host \in RegHosts /\ Start

\* one addp call of the host: new Param(...), then params_map[longPhrase] = it
Addp ==
    /\ pc = "main"
    /\ \E call \in Menu(host) :
          LET r == Param(Resolve(call), dest)
          IN  /\ dest' = r.dest
              /\ diag' = r.diag
              /\ lastCall' = MapPut(lastCall, call.longPhrase, call)
              /\ IF r.status = "ok"
                 THEN /\ params_map' = MapInsert(params_map, r.param)
                      /\ pc' = "main"
                 ELSE /\ params_map' = params_map
                      /\ pc' = IF r.status = "exit" THEN "exited" ELSE "terminated"
    /\ UNCHANGED <<host, argv, args, pos, posspace, location, i, readingAnOption,
                   parameter, parameter_counter, matched, details>>

\* where argparse goes once the scan loop's condition is false
AfterScan(a, ps) == IF ScanCond(a, ps) THEN "scan" ELSE "read"

\* the call of argparse up to the first test of the scan loop
ArgparseBegin ==
    /\ pc = "main"
    /\ \E av \in Argvs(host) :
          LET a == ReplaceEquals(JoinArgs(av))
              ps == FindFirstNotOf(a, " ", 0)
          IN  /\ argv' = av
              /\ args' = a
              /\ posspace' = ps
              /\ pc' = AfterScan(a, ps)
    /\ pos' = <<>>
    /\ location' = 0
    /\ i' = 0
    /\ readingAnOption' = TRUE
    /\ parameter' = <<>>
    /\ parameter_counter' = 1
    /\ UNCHANGED <<host, params_map, dest, diag, matched, lastCall, details>>

\* one iteration of the scan loop
ScanStep ==
    /\ pc = "scan"
    /\ Len(pos) < ScanLimit(args)
    /\ LET r == ScanIter(args, pos, posspace)
       IN  /\ pos' = r.pos
           /\ location' = r.location
           /\ posspace' = r.posspace
           /\ pc' = AfterScan(args, r.posspace)
    /\ UNCHANGED <<host, params_map, dest, diag, argv, args, i, readingAnOption,
                   parameter, parameter_counter, matched, lastCall, details>>

\* the word the read loop is at: args.substr(beg, *i - beg)
WordAt(a, p, k) == Substr(a, p[k + 1], p[k + 2] - p[k + 1])

CurrentWord == WordAt(args, pos, i)

\* one iteration of the read loop
ReadStep ==
    /\ pc = "read"
    /\ i < Len(pos)
    /\ LET r == ReadIter(params_map, dest, args, pos, i, readingAnOption,
                         parameter, parameter_counter)
       IN  /\ pc' = r.pc
           /\ diag' = r.diag
           /\ params_map' = r.params_map
           /\ dest' = r.dest
           /\ i' = r.i
           /\ readingAnOption' = r.readingAnOption
           /\ parameter' = r.parameter
           /\ parameter_counter' = r.parameter_counter
    /\ matched' = IF readingAnOption /\ CurrentWord \in DOMAIN params_map
                  THEN matched \cup {CurrentWord}
                  ELSE matched
    /\ UNCHANGED <<host, argv, args, pos, posspace, location, lastCall, details>>

\* the read loop is over: the required-option check, then return
Validate ==
    /\ pc = "read"
    /\ i >= Len(pos)
    /\ \E g \in SetReads(params_map) :
          LET r == ValidateIter(params_map, g)
          IN  /\ pc' = r.pc
              /\ diag' = r.diag
    /\ UNCHANGED <<host, params_map, dest, argv, args, pos, posspace, location, i,
                   readingAnOption, parameter, parameter_counter, matched, lastCall,
                   details>>

\* the host prints argdetails() and exits
Argdetails ==
    /\ pc = "main"
    /\ details' = argdetails(params_map)
    /\ pc' = "printed"
    /\ UNCHANGED <<host, params_map, dest, diag, argv, args, pos, posspace, location,
                   i, readingAnOption, parameter, parameter_counter, matched,
                   lastCall>>

Next == Addp \/ ArgparseBegin \/ ScanStep \/ ReadStep \/ Validate \/ Argdetails

Spec == Init /\ [][Next]_vars

SpecReg == InitReg /\ [][Next]_vars

(***************************************************************************)
(* argparse as a function of the registry, the destinations and argv: the  *)
(* loops above run to their end. `ends` is every way the call can end      *)
(* (several when the validation reads a `set` that was never written).     *)
(***************************************************************************)
RECURSIVE ScanAll(_, _, _)
ScanAll(a, p, ps) ==
    IF ~ScanCond(a, ps) THEN [done |-> TRUE, pos |-> p]
    ELSE IF Len(p) >= ScanLimit(a) THEN [done |-> FALSE, pos |-> p]
    ELSE LET r == ScanIter(a, p, ps) IN ScanAll(a, r.pos, r.posspace)

RECURSIVE ReadAll(_, _, _)
ReadAll(st, a, p) ==
    IF st.pc # "read" \/ st.i >= Len(p) THEN st
    ELSE ReadAll(ReadIter(st.params_map, st.dest, a, p, st.i, st.readingAnOption,
                          st.parameter, st.parameter_counter), a, p)

ArgparseRun(m, d, av) ==
    LET a  == ReplaceEquals(JoinArgs(av))
        sc == ScanAll(a, <<>>, FindFirstNotOf(a, " ", 0))
        st == ReadAll(ReadState("read", NoDiag, m, d, 0, TRUE, <<>>, 1), a, sc.pos)
    IN  IF ~sc.done
        THEN [ends |-> {[pc |-> "scan", diag |-> NoDiag]}, params_map |-> m, dest |-> d]
        ELSE [ends |-> IF st.pc = "read"
                       THEN {ValidateIter(st.params_map, g) : g \in SetReads(st.params_map)}
                       ELSE {[pc |-> st.pc, diag |-> st.diag]},
              params_map |-> st.params_map, dest |-> st.dest]

(***************************************************************************)
(* Vocabulary of the properties.                                           *)
(***************************************************************************)
\* argparse was called and has not yet scanned or read a word
JustBegun == pc \in {"scan", "read"} /\ pos = <<>> /\ i = 0

\* argparse returned from its last line, after the validation
ValidatedReturn == pc = "returned" /\ i >= Len(pos)

\* argparse returned from inside the read loop ("--help")
HelpReturn == pc = "returned" /\ i < Len(pos)

\* the n-th scanned word, n = 1, 2, ...
Word(n) == WordAt(args, pos, 2 * (n - 1))

\* how many words the read loop has consumed
WordsRead == i \div 2

IsOption(k) == k \in DOMAIN params_map

\* what a word is bound as, per type
Convertible(type, w) ==
    CASE type \in NumericTypes -> ~Sto(w).throws
      [] type = "CHAR" -> w # <<>>
      [] OTHER -> TRUE

Conv(type, w) ==
    CASE type \in NumericTypes -> Sto(w).val
      [] type = "CHAR" -> Head(w)
      [] OTHER -> w

LastItems(c, n) == SubSeq(dest[c].items, Len(dest[c].items) - n + 1, Len(dest[c].items))

PlainValue(v) ==
    v # <<>> /\ \A k \in 1..Len(v) : v[k] \notin {" ", "\"", "\\", "="}

\* the places where a word is <opt>=<value> for a registered non-boolean opt
EqSplits(w) ==
    {j \in 1..Len(w) :
        /\ w[j] = "="
        /\ IsOption(SubSeq(w, 1, j - 1))
        /\ params_map[SubSeq(w, 1, j - 1)].type # "BOOL"
        /\ PlainValue(SubSeq(w, j + 1, Len(w)))}

\* av with its k-th word split in two at position j
SplitWord(av, k, j) ==
    SubSeq(av, 1, k - 1)
      \o <<SubSeq(av[k], 1, j - 1), SubSeq(av[k], j + 1, Len(av[k]))>>
      \o SubSeq(av, k + 1, Len(av))

(***************************************************************************)
(* C1. `<opt>=<value>` and `<opt> <value>` parse alike: for every          *)
(* registered non-boolean option, every plain value and every position of  *)
(* the word in argv (the first included), argparse ends the same way with  *)
(* the same destinations and set flags on both argument lists.             *)
(***************************************************************************)
C1_EqualsSameAsSpace ==
    JustBegun =>
        \A k \in 1..Len(argv) : \A j \in EqSplits(argv[k]) :
            ArgparseRun(params_map, dest, argv)
              = ArgparseRun(params_map, dest, SplitWord(argv, k, j))

(***************************************************************************)
(* C2. A required non-boolean option without default that argparse never   *)
(* matched makes argparse end in the missing-option error: argparse does   *)
(* not return from its validation with such an option unmatched.           *)
(***************************************************************************)
C2_MissingRequiredIsFatal ==
    \A k \in DOMAIN params_map :
        (/\ params_map[k].type # "BOOL"
         /\ params_map[k].required
         /\ params_map[k].defaultValue = <<>>
         /\ k \notin matched)
        => ~ValidatedReturn

(***************************************************************************)
(* C3. Once a non-boolean option of fixed arity N >= 1 has been matched,   *)
(* the next N words are bound as its values, converted per type and in     *)
(* input order (the scalar for N = 1, appended for N > 1), and the parser  *)
(* is reading options again.                                               *)
(***************************************************************************)
C3_FixedArityBindsNextWords ==
    (/\ pc = "read" \/ ValidatedReturn
     /\ readingAnOption
     /\ IsOption(parameter)
     /\ params_map[parameter].type # "BOOL")
    => LET p == params_map[parameter]
           N == p.xargs
           n == WordsRead
       IN  /\ N >= 1
           /\ n > N
           /\ Word(n - N) = parameter
           /\ \A j \in 1..N : Convertible(p.type, Word(n - N + j))
           /\ Len(dest[p.destination].items) >= (IF N = 1 THEN 1 ELSE N)
           /\ IF N = 1
              THEN dest[p.destination] = Scalar(Conv(p.type, Word(n)))
              ELSE LastItems(p.destination, N)
                     = [j \in 1..N |-> Conv(p.type, Word(n - N + j))]

(***************************************************************************)
(* C4. An option of fixed arity N > 1 that is given fewer than N values    *)
(* ends the parse in a fatal error: argparse never returns while it is     *)
(* still waiting for values of such an option.                             *)
(***************************************************************************)
C4_TooFewValuesIsFatal ==
    pc = "returned" =>
        ~(/\ ~readingAnOption
          /\ IsOption(parameter)
          /\ params_map[parameter].xargs > 1)

(***************************************************************************)
(* C5. Once an option of unbounded arity (-1) has been matched, every      *)
(* further word is appended to its destination in input order: the         *)
(* sequence is as long as the number of words read after the option, the   *)
(* parser stays in value-reading state, and set is true from the first     *)
(* value on.                                                               *)
(***************************************************************************)
C5_UnboundedTakesEveryWord ==
    (/\ pc = "read" \/ ValidatedReturn
     /\ IsOption(parameter)
     /\ params_map[parameter].type # "BOOL"
     /\ params_map[parameter].xargs = -1)
    => LET p == params_map[parameter]
           c == (-1) - parameter_counter
           n == WordsRead
           items == dest[p.destination].items
       IN  /\ ~readingAnOption
           /\ Word(n - c) = parameter
           /\ Len(items) = c
           /\ \A j \in 1..c : Convertible(p.type, Word(n - c + j))
           /\ items = [j \in 1..c |-> Conv(p.type, Word(n - c + j))]
           /\ c >= 1 => p.set = "true"

(***************************************************************************)
(* C6. When "--help", registered as a boolean option, is matched in        *)
(* option-reading state, argparse sets its destination to true and returns *)
(* at once: nothing else changes in that step (earlier bindings are kept), *)
(* the validation does not run, and nothing happens after the return.      *)
(***************************************************************************)
HelpMatched ==
    /\ pc = "read"
    /\ i < Len(pos)
    /\ readingAnOption
    /\ CurrentWord = HELP
    /\ IsOption(HELP)
    /\ params_map[HELP].type = "BOOL"

C6_HelpReturnsAtOnce ==
    [][/\ HelpMatched =>
            /\ pc' = "returned"
            /\ diag' = NoDiag
            /\ params_map' = params_map
            /\ dest' = [dest EXCEPT ![params_map[HELP].destination] = Scalar(TRUE)]
       /\ pc = "returned" => UNCHANGED vars]_vars

\* "--help" returned with words left unread, a required option unmatched
\* and a value bound before it
C6_HelpWitness ==
    /\ HelpReturn
    /\ i + 1 < Len(pos)
    /\ dest[params_map[HELP].destination] = Scalar(TRUE)
    /\ \E k \in DOMAIN params_map : params_map[k].required /\ k \notin matched
    /\ \E k \in matched : /\ params_map[k].type = "STRING"
                          /\ dest[params_map[k].destination] = Scalar(W1)

(***************************************************************************)
(* C7. After argparse returns, the destination of every registered boolean *)
(* option is true if its long phrase was matched as an option word, and    *)
(* otherwise what registration wrote (its default, or false); a boolean    *)
(* option takes no value word: after it the parser is reading options.     *)
(***************************************************************************)
RegisteredBool(k) == ToLower(params_map[k].defaultValue) = TrueWord

C7_BoolFollowsPresence ==
    \A k \in DOMAIN params_map :
        params_map[k].type = "BOOL" =>
            /\ pc = "returned" =>
                  dest[params_map[k].destination]
                    = Scalar(IF k \in matched THEN TRUE ELSE RegisteredBool(k))
            /\ parameter = k => readingAnOption

\* one flag present (true), one absent with default true, one absent (false)
C7_BoolWitness ==
    /\ ValidatedReturn
    /\ Len(argv) >= 2
    /\ \E k \in DOMAIN params_map :
          /\ params_map[k].type = "BOOL" /\ k \in matched
          /\ ~RegisteredBool(k)
          /\ dest[params_map[k].destination] = Scalar(TRUE)
    /\ \E k \in DOMAIN params_map :
          /\ params_map[k].type = "BOOL" /\ k \notin matched
          /\ RegisteredBool(k)
          /\ dest[params_map[k].destination] = Scalar(TRUE)

(***************************************************************************)
(* C8. A non-boolean option registered with a non-empty default through    *)
(* the five-argument call addp(type, &destination, default, phrase, help), *)
(* the default written as a string literal (as in the header example) or   *)
(* passed as a std::string, is not required, its destination holds the     *)
(* converted default from registration on for as long as argparse has not  *)
(* matched the option, and it is never reported missing.                   *)
(***************************************************************************)
DefaultForm(call) ==
    /\ call.form = "phrased"
    /\ call.type # "BOOL"
    /\ Len(call.a) = 1
    /\ call.a[1].kind \in {"literal", "string"}
    /\ call.a[1].s # <<>>

C8_DefaultStands ==
    \A k \in DOMAIN params_map :
        DefaultForm(lastCall[k]) =>
            /\ ~params_map[k].required
            /\ k \notin matched =>
                  dest[params_map[k].destination]
                    = Scalar(Conv(params_map[k].type, lastCall[k].a[1].s))
            /\ ~(diag.kind = "missing" /\ diag.text = k)

(***************************************************************************)
(* C9. For a string option of arity 1 followed by a double-quoted segment  *)
(* spread over several argv words (the first starts with a quote, the last *)
(* ends with one, any quote in between is backslash-escaped), the          *)
(* destination is bound to the text between the two quotes, spaces kept,   *)
(* and the parser goes on reading options with the word after the segment. *)
(***************************************************************************)
Last(w) == w[Len(w)]

RECURSIVE JoinWords(_)
JoinWords(ws) ==
    IF Len(ws) = 1 THEN ws[1] ELSE Head(ws) \o <<" ">> \o JoinWords(Tail(ws))

SegmentText(av, j, k) ==
    LET t == JoinWords(SubSeq(av, j, k)) IN SubSeq(t, 2, Len(t) - 1)

IsQuotedSegment(av, j, k) ==
    /\ j < k
    /\ Head(av[j]) = "\""
    /\ Last(av[k]) = "\""
    /\ LET x == SegmentText(av, j, k)
       IN  /\ x # <<>> /\ Last(x) # "\\"
           /\ \A y \in 1..Len(x) :
                 /\ x[y] # "="
                 /\ x[y] = "\"" => (y > 1 /\ x[y - 1] = "\\")

C9_QuotedSegmentIsOneWord ==
    \A k \in 3..Len(argv) :
        (/\ pc = "read"
         /\ i = 4
         /\ IsOption(argv[1])
         /\ params_map[argv[1]].type = "STRING"
         /\ params_map[argv[1]].xargs = 1
         /\ IsQuotedSegment(argv, 2, k))
        => /\ dest[params_map[argv[1]].destination] = Scalar(SegmentText(argv, 2, k))
           /\ readingAnOption
           /\ (k < Len(argv) /\ PlainValue(argv[k + 1])) => CurrentWord = argv[k + 1]

(***************************************************************************)
(* C10. In option-reading state a word that is not a key of the registry   *)
(* ends argparse in the unrecognized-option error naming that word, with   *)
(* nothing bound by it and nothing happening after; a word the read loop   *)
(* goes on from as an option is a key of the registry, and it is that key  *)
(* whose descriptor is used.                                               *)
(***************************************************************************)
ReadingOptionWord == pc = "read" /\ i < Len(pos) /\ readingAnOption

C10_UnknownOptionIsFatal ==
    [][/\ (ReadingOptionWord /\ ~IsOption(CurrentWord)) =>
            /\ pc' = "exited"
            /\ diag' = [kind |-> "unrecognized", text |-> CurrentWord]
            /\ dest' = dest
            /\ params_map' = params_map
       /\ (ReadingOptionWord /\ pc' # "exited") =>
            /\ IsOption(CurrentWord)
            /\ parameter' = CurrentWord
       /\ pc = "exited" => UNCHANGED vars]_vars

\* a word that only starts with a registered phrase was rejected, after an
\* option had been accepted
C10_UnknownWitness ==
    /\ pc = "exited"
    /\ diag = [kind |-> "unrecognized", text |-> Wib]
    /\ IsOption(Wi)
    /\ matched # {}

(***************************************************************************)
(* C11. A non-empty value word that cannot be converted for a numeric      *)
(* option ends argparse in the conversion error, with the diagnostic       *)
(* naming the option's type and echoing the word, whether the option's     *)
(* arity is 1 or not; argparse never ends in an exception nothing catches. *)
(***************************************************************************)
ReadingNumericValue ==
    /\ pc = "read"
    /\ i < Len(pos)
    /\ ~readingAnOption
    /\ IsOption(parameter)
    /\ params_map[parameter].type \in NumericTypes

C11_ConversionErrorIsUniform ==
    [][/\ (/\ ReadingNumericValue
           /\ CurrentWord # <<>>
           /\ ~Convertible(params_map[parameter].type, CurrentWord)) =>
            /\ pc' = "exited"
            /\ diag' = [kind |-> "conversion", type |-> params_map[parameter].type,
                        text |-> CurrentWord]
       /\ pc' # "terminated"]_vars

(***************************************************************************)
(* C12. An empty word read as the value of a char option ends argparse in  *)
(* the conversion error: the step binds nothing, leaves the counter of     *)
(* remaining values and the set flag alone, and so no char option is ever  *)
(* marked set by a word that left its destination unwritten.               *)
(***************************************************************************)
ReadingCharValue ==
    /\ pc = "read"
    /\ i < Len(pos)
    /\ ~readingAnOption
    /\ IsOption(parameter)
    /\ params_map[parameter].type = "CHAR"

C12_EmptyCharWordIsFatal ==
    [][(ReadingCharValue /\ CurrentWord = <<>>) =>
            /\ pc' = "exited"
            /\ diag'.kind = "conversion"
            /\ parameter_counter' = parameter_counter
            /\ params_map' = params_map
            /\ dest' = dest]_vars

(***************************************************************************)
(* C13. Every scan step records one word: a word that begins with a double *)
(* quote runs from the character after it to the next double quote that is *)
(* not preceded by a backslash (when there is one), so an escaped quote    *)
(* stays inside the word; any other word runs to the next space.           *)
(***************************************************************************)
NextUnescapedQuote(a, from) ==
    LET S == {k \in from..(Len(a) - 1) :
                 At(a, k) = "\"" /\ (k = 0 \/ At(a, k - 1) # "\\")}
    IN  IF S = {} THEN -1 ELSE Min(S)

C13_QuotedWordEndsAtUnescapedQuote ==
    [][pc = "scan" =>
          IF At(args, posspace) = "\""
          THEN NextUnescapedQuote(args, posspace + 1) # -1 =>
                  pos' = pos \o <<posspace + 1, NextUnescapedQuote(args, posspace + 1)>>
          ELSE pos' = pos \o <<posspace, Find(args, " ", posspace + 1)>>]_vars

(***************************************************************************)
(* C14. What argdetails returns has exactly one block per entry of the     *)
(* registry, in ascending order of long phrase, each with its entry's long *)
(* phrase and help phrase; the arity line is there for every non-boolean   *)
(* option, of fixed or unbounded arity, and for no boolean option; the     *)
(* default line, with the entry's default value, is there exactly when the *)
(* entry is not required.                                                  *)
(***************************************************************************)
BlockOf(k) == CHOOSE b \in {details[n] : n \in 1..Len(details)} : b.longPhrase = k

C14_OneBlockPerEntry ==
    pc = "printed" =>
        /\ Len(details) = Cardinality(DOMAIN params_map)
        /\ {details[n].longPhrase : n \in 1..Len(details)} = DOMAIN params_map
        /\ \A n \in 1..Len(details) : \A m \in 1..Len(details) :
              n < m => StrLess(details[n].longPhrase, details[m].longPhrase)
        /\ \A k \in DOMAIN params_map :
              LET p == params_map[k]
                  b == BlockOf(k)
              IN  /\ b.helpPhrase = p.helpPhrase
                  /\ (b.arity # <<>>) <=> (p.type # "BOOL")
                  /\ b.arity # <<>> => b.arity[1].typeName = TypeName(p.type)
                  /\ (b.default # <<>>) <=> (p.required = FALSE)
                  /\ b.default # <<>> => b.default = <<p.defaultValue>>

(***************************************************************************)
(* C15. Whatever overload registered it (with required = true, with an     *)
(* arity other than 1), and before, during and after argparse, every       *)
(* boolean entry of the registry has required = false and set = true, its  *)
(* destination holds a boolean, and the validation never reports it        *)
(* missing.                                                                *)
(***************************************************************************)
C15_BoolNeverRequired ==
    \A k \in DOMAIN params_map :
        params_map[k].type = "BOOL" =>
            /\ params_map[k].required = FALSE
            /\ params_map[k].set = "true"
            /\ dest[params_map[k].destination] \in {Scalar(TRUE), Scalar(FALSE)}
            /\ ~(diag.kind = "missing" /\ diag.text = k)

\* argparse returned from its validation with two boolean options that were
\* registered with required = true, one of them with arity 2, and not matched
C15_BoolWitness ==
    /\ ValidatedReturn
    /\ argv # <<>>
    /\ \E k \in DOMAIN params_map : \E j \in DOMAIN params_map :
          /\ k # j
          /\ k \notin matched /\ j \notin matched
          /\ params_map[k].type = "BOOL" /\ params_map[j].type = "BOOL"
          /\ params_map[k].xargs = 2
          /\ Resolve(lastCall[k]).required /\ Resolve(lastCall[j]).required

(***************************************************************************)
(* C16. The registry has one entry per long phrase, the one the last addp  *)
(* call under that phrase made (a call that ends in an error makes none);  *)
(* a registration changes the entry of one phrase only; argparse takes the *)
(* type and the arity from that entry, writes to no destination but that   *)
(* entry's, and reports no option missing unless that entry is required.   *)
(***************************************************************************)
\* the descriptor without its set flag
Registered(p) ==
    [type |-> p.type, destination |-> p.destination, longPhrase |-> p.longPhrase,
     helpPhrase |-> p.helpPhrase, xargs |-> p.xargs, required |-> p.required,
     defaultValue |-> p.defaultValue]

LastRegistered(k) == ParamInit(Resolve(lastCall[k]))

\* the registry entries that a step has added or changed
Touched == {k \in DOMAIN params_map' :
               k \notin DOMAIN params_map \/ params_map'[k] # params_map[k]}

\* the phrase whose entry the read loop is using in this step
PhraseInUse == IF readingAnOption THEN CurrentWord ELSE parameter

C16_LastRegistrationWins ==
    [][/\ IF pc = "main" /\ pc' \in {"exited", "terminated"}
          THEN params_map' = params_map
          ELSE /\ DOMAIN params_map' = DOMAIN lastCall'
               /\ \A k \in DOMAIN params_map' :
                     Registered(params_map'[k]) = Registered(LastRegistered(k)')
       /\ pc = "main" =>
             /\ DOMAIN params_map \subseteq DOMAIN params_map'
             /\ Cardinality(Touched) <= 1
       /\ (pc = "read" /\ i < Len(pos)) =>
             /\ \A c \in Cells :
                   dest'[c] # dest[c] =>
                      /\ PhraseInUse \in DOMAIN lastCall
                      /\ c = LastRegistered(PhraseInUse).destination
             /\ (readingAnOption /\ pc' = "read") =>
                   /\ PhraseInUse \in DOMAIN lastCall
                   /\ readingAnOption' = (LastRegistered(PhraseInUse).type = "BOOL")
                   /\ ~readingAnOption' =>
                         parameter_counter' = LastRegistered(PhraseInUse).xargs
       /\ diag'.kind = "missing" =>
             /\ diag'.text \in DOMAIN lastCall
             /\ LastRegistered(diag'.text).required]_vars

\* `x` was registered as a required int with default 21 (written at that
\* registration) and then again as a string option of arity 2, not required:
\* argparse bound two words to names, or returned without `x` being matched
C16_ReRegisteredWitness ==
    /\ ValidatedReturn
    /\ Wx \in DOMAIN lastCall
    /\ dest["iterations"] = Scalar(21)
    /\ lastCall[Wx].type = "STRING"
    /\ \/ Wx \in matched /\ dest["names"].items = <<W1, W1>>
       \/ Wx \notin matched /\ argv # <<>>

(***************************************************************************)
(* C17. No step of argparse (beginning, scan, read, validation; towards a  *)
(* return, the "--help" return or an error) adds or removes a key of the   *)
(* registry or changes an entry's type, phrases, arity, required flag or   *)
(* default value; a set flag or a destination changes only for an entry    *)
(* whose phrase was matched in the argument list.                          *)
(***************************************************************************)
ArgparseStep == pc \in {"scan", "read"} \/ (pc = "main" /\ pc' \in {"scan", "read"})

C17_ArgparseFrame ==
    [][ArgparseStep =>
          /\ DOMAIN params_map' = DOMAIN params_map
          /\ \A k \in DOMAIN params_map :
                /\ Registered(params_map'[k]) = Registered(params_map[k])
                /\ params_map'[k].set # params_map[k].set => k \in matched'
          /\ \A c \in Cells :
                dest'[c] # dest[c] =>
                   \E k \in matched' : params_map[k].destination = c]_vars

\* argparse returned from its validation after binding both values of an
\* arity-2 option: the entry is set, its arity is still 2, the counter is 0,
\* and another entry was never matched
C17_FrameWitness ==
    /\ ValidatedReturn
    /\ parameter_counter = 0
    /\ IsOption(parameter)
    /\ params_map[parameter].xargs = 2
    /\ params_map[parameter].set = "true"
    /\ Len(dest[params_map[parameter].destination].items) = 2
    /\ \E k \in DOMAIN params_map : k \notin matched

(***************************************************************************)
(* C18. An addp call for a boolean option whose default string is not      *)
(* empty and is neither "true" nor "false" in any letter case ends in the  *)
(* bad-default error in the call itself: no entry is made for it and       *)
(* argparse never begins. After a call with a default that is "true" in    *)
(* any letter case the destination is true, and after one with no default  *)
(* or with "false" it is false, until argparse matches the option.         *)
(***************************************************************************)
\* the default string the host passed in a call (empty if it passed none)
DefaultArg(call) ==
    LET S == {n \in 1..Len(call.a) : call.a[n].kind \in {"literal", "string"}}
    IN  IF S = {} THEN <<>> ELSE call.a[CHOOSE n \in S : TRUE].s

LegalBoolDefault(dv) == dv = <<>> \/ ToLower(dv) \in {TrueWord, FalseWord}

C18_BadBoolDefaultIsFatal ==
    \A k \in DOMAIN lastCall :
        lastCall[k].type = "BOOL" =>
            LET dv == DefaultArg(lastCall[k])
            IN  IF ~LegalBoolDefault(dv)
                THEN /\ pc = "exited"
                     /\ diag = [kind |-> "baddefault", text |-> dv]
                     /\ \/ k \notin DOMAIN params_map
                        \/ Registered(params_map[k]) # Registered(LastRegistered(k))
                     /\ argv = <<>> /\ pos = <<>>
                ELSE k \notin matched =>
                        dest[lastCall[k].destination] = Scalar(ToLower(dv) = TrueWord)

(***************************************************************************)
(* C19. The scan loop of argparse comes to an end on every argument list,  *)
(* an unclosed double quote included: every iteration moves the scan       *)
(* position strictly to the right (or ends the loop), and what has been    *)
(* recorded is always an even number of positions, at most one pair per    *)
(* character of args, each pair 0 <= start <= end <= Len(args), and the    *)
(* pairs from left to right.                                               *)
(***************************************************************************)
RangesInOrder(p, a) ==
    /\ Len(p) % 2 = 0
    /\ Len(p) <= 2 * Len(a)
    /\ \A n \in 1..Len(p) : 0 <= p[n] /\ p[n] <= Len(a)
    /\ \A n \in 1..(Len(p) - 1) : p[n] <= p[n + 1]

C19_ScanTerminates ==
    [][pc = "scan" =>
          /\ posspace' = -1 \/ posspace' > posspace
          /\ RangesInOrder(pos', args)]_vars

====
